---- MODULE Spec2Model ----
(***************************************************************************)
(* StreamChat AI: the token-bucket rate limiter, the model router, the     *)
(* chat manager with its SQLite history, and the HTTP / SSE / WebSocket    *)
(* entry points, as state machines.                                        *)
(*                                                                         *)
(* Time.  time.time() is a float number of seconds.  The model reads the   *)
(* clock in ticks of 1/TicksPerSecond second.  Bucket levels are floats;   *)
(* the model keeps them exactly, as integers in units of 1/Scale token,    *)
(* Scale = Window * TicksPerSecond, so that the refill                     *)
(*     (elapsed / window) * capacity                                       *)
(* of a bucket over dt ticks is exactly dt * capacity units.               *)
(***************************************************************************)
EXTENDS Integers, Sequences, FiniteSets, TLC

\* ------------------------------------------------------------- bounds
TicksPerSecond == 2
MaxSteps == 6
MaxTokSteps == 4
MaxMixSteps == 4
MaxCreateDelay == 1
MaxRequests == 2
MaxTokens == 1
MaxTasks == 2
MaxTurns == 3
MaxChatTurns == 2
MaxStream == 2
MaxStreamTurns == 2
MaxRows == 3

\* ---------------------------------------------------------- constants
Window == 60

Scale == Window * TicksPerSecond

Keys == {"key1", "key2"}

\* settings.valid_api_keys: the default configuration has one key
ValidKeys == {"key1"}

\* Python's None, where a string is expected
None == "<None>"

\* the models each backend registers, and settings.default_model
OpenAIModels == {"gpt-4o", "gpt-4o-mini", "gpt-4-turbo", "gpt-3.5-turbo"}

GeminiModels == {"gemini-1.5-flash", "gemini-1.5-pro", "gemini-2.0-flash"}

DefaultModel == "gpt-4o-mini"

\* _build_messages asks for the last 20 messages
HistoryLimit == 20

\* get_history's limit=None; `if limit:` takes limit=0 the same way
NoLimit == 0
\* the default of the `limit` query parameter of the history endpoint
DefaultLimit == 50

\* what the requests carry: the model asked for (absent, empty, a Gemini
\* model, a model no backend has), the session, the message; strings that
\* are measured or concatenated are sequences of characters
ModelInputs == {None, "", "gemini-1.5-flash", "gpt-5"}

SessionIds == {"s1", "s2"}

UserMessages == {<<"h", "i">>}

\* what a provider answers: the content of a non-streaming response (which
\* may be empty), the tokens of a stream (never empty: lines 80-81)
Contents == {<< >>, <<"o", "k">>}

Tokens == {<<"a">>, <<"b", "c">>}

TaskIds == 1 .. MaxTasks
\* the limits get_history is called with: none, and some on either side of
\* a session's size
Limits == {NoLimit, -1, 1, 2, HistoryLimit}
\* the limits GET /sessions/{id}/history is asked with: one, and the
\* default
EndpointLimits == {1, DefaultLimit}
\* the roles messages are stored with
Roles == {"user", "assistant"}

\* token_count arguments of consume_tokens (an int: nothing rejects a
\* negative one)
TokenCounts == {-1, 1, MaxTokens + 1}

\* the clock advances between calls by one tick, or by the time one request
\* token takes to refill
TickSteps == {1, Scale \div MaxRequests}

VARIABLES
    now,              \* the reading time.time() gives, in ticks
    request_buckets,  \* RateLimiter._request_buckets: api_key -> RateBucket
    token_buckets,    \* RateLimiter._token_buckets: api_key -> RateBucket
    rl_last,          \* the last RateLimiter call: its arguments and result
    streak,           \* per key: the results of the check_rate_limit calls
                      \* since the key's bucket was created, as long as the
                      \* clock did not move between the calls
    below_since,      \* per key: since when its request bucket has been below
                      \* one token, and the denied calls since then
    rl_left,          \* how many more RateLimiter calls and clock steps the
                      \* exploration makes
    providers,        \* ModelRouter._providers: model name -> provider
    history_last,     \* the last direct ConversationHistory call and its result
    router_last,      \* the last ModelRouter.get_provider call and its result
    messages,         \* the messages table, in id order
    sessions,         \* the sessions table: session_id -> row
    next_id,          \* the id AUTOINCREMENT gives the next message
    tasks,            \* the requests and connections being served
    turns_left        \* how many more requests the exploration starts

rl_vars == <<now, request_buckets, token_buckets, rl_last, streak,
            below_since, rl_left>>

chat_vars == <<providers, history_last, router_last, messages, sessions,
               next_id, tasks, turns_left>>

vars == <<now, request_buckets, token_buckets, rl_last, streak, below_since,
          rl_left,
          providers, history_last, router_last, messages, sessions, next_id, tasks,
          turns_left>>

\* ------------------------------------------------------------ helpers
Min(a, b) == IF a <= b THEN a ELSE b

\* Python's int() of the quotient num / den of two numbers, den > 0:
\* truncation towards zero.
IntTrunc(num, den) ==
    IF num >= 0 THEN num \div den ELSE -((-num) \div den)

\* ------------------------------------------------------- rate limiter
\* RateBucket(tokens=cap), created at clock reading t.
NewBucket(cap, t) == [tokens |-> cap * Scale, last_refill |-> t]

\* The continuous refill both methods start with.
Refill(b, cap, t) ==
    [tokens |-> Min(cap * Scale, b.tokens + (t - b.last_refill) * cap),
     last_refill |-> t]

\* dict item assignment: the bucket of key k, and of no other key.
PutBucketShared(buckets, k, b) ==
    [x \in DOMAIN buckets \cup {k} |-> b]

PutBucket(buckets, k, b) ==
    [x \in DOMAIN buckets \cup {k} |-> IF x = k THEN b ELSE buckets[x]]

\* check_rate_limit whose allowed branch writes the level back without the
\* token it took, as an update lost between two tasks would leave it
CheckOutcomeLostUpdate(b, t) ==
    LET r == Refill(b, MaxRequests, t) IN
    IF r.tokens < Scale
    THEN [allowed |-> FALSE,
          retry_after_seconds |->
              IntTrunc(Window * (Scale - r.tokens), Scale * MaxRequests),
          remaining |-> 0, bucket |-> r]
    ELSE [allowed |-> TRUE, retry_after_seconds |-> 0,
          remaining |-> IntTrunc(r.tokens - Scale, Scale), bucket |-> r]

\* check_rate_limit whose denied branch keeps the level it found and yet
\* moves last_refill, so that the refill of the time waited is dropped
CheckOutcomeDeniedRestarts(b, t) ==
    LET r == Refill(b, MaxRequests, t) IN
    IF r.tokens < Scale
    THEN [allowed |-> FALSE,
          retry_after_seconds |->
              IntTrunc(Window * (Scale - r.tokens), Scale * MaxRequests),
          remaining |-> 0, bucket |-> [r EXCEPT !.tokens = b.tokens]]
    ELSE [allowed |-> TRUE, retry_after_seconds |-> 0,
          remaining |-> IntTrunc(r.tokens - Scale, Scale),
          bucket |-> [r EXCEPT !.tokens = @ - Scale]]

\* check_rate_limit on bucket b with `now` read as t: the result and the
\* bucket it leaves.
CheckOutcome(b, t) ==
    LET r == Refill(b, MaxRequests, t) IN
    IF r.tokens < Scale
    THEN [allowed |-> FALSE,
          retry_after_seconds |->
              IntTrunc(Window * (Scale - r.tokens), Scale * MaxRequests),
          remaining |-> 0,
          bucket |-> r]
    ELSE [allowed |-> TRUE,
          retry_after_seconds |-> 0,
          remaining |-> IntTrunc(r.tokens - Scale, Scale),
          bucket |-> [r EXCEPT !.tokens = @ - Scale]]

\* consume_tokens on bucket b with token_count n and `now` read as t.
ConsumeOutcomePartial(b, n, t) ==
    LET r == Refill(b, MaxTokens, t) IN
    IF r.tokens < n * Scale
    THEN [ok |-> FALSE, refilled |-> r.tokens,
          bucket |-> [r EXCEPT !.tokens = 0]]
    ELSE [ok |-> TRUE, refilled |-> r.tokens,
          bucket |-> [r EXCEPT !.tokens = @ - n * Scale]]

ConsumeOutcome(b, n, t) ==
    LET r == Refill(b, MaxTokens, t) IN
    IF r.tokens < n * Scale
    THEN [ok |-> FALSE, refilled |-> r.tokens, bucket |-> r]
    ELSE [ok |-> TRUE, refilled |-> r.tokens,
          bucket |-> [r EXCEPT !.tokens = @ - n * Scale]]

NoCall == [op |-> "none"]

\* the request bucket holds a token or more, or is not there
NotBelow == [at |-> -1, denied |-> 0]

\* Since when a key's request bucket has been below one token, after a
\* check_rate_limit call that read the clock as t and had the outcome out:
\* an allowed call that leaves less than a token starts the count, a denied
\* call goes on with it.
BelowAfterCall(prev, out, t) ==
    IF out.bucket.tokens >= Scale THEN NotBelow
    ELSE IF out.allowed THEN [at |-> t, denied |-> 0]
    ELSE IF prev.at >= 0 THEN [prev EXCEPT !.denied = @ + 1]
    ELSE [at |-> t, denied |-> 1]

\* The keys whose streak goes on when the clock moves by d during a call
\* for key k: only k itself, and only if it is already being recorded or
\* its bucket is created by this very call.
StreakAfterCall(k, fresh, d, res) ==
    [x \in Keys |->
        IF x = k
        THEN IF fresh THEN <<res>>
             ELSE IF streak[k] # <<>> /\ Len(streak[k]) <= MaxRequests
                  THEN Append(streak[k], res)
                  ELSE <<>>
        ELSE IF d > 0 THEN <<>> ELSE streak[x]]

\* One check_rate_limit(k) call.  `now` is read first (line 51); a key
\* with no bucket then gets one from the defaultdict factory, whose
\* last_refill is a second, later reading of the clock (lines 20, 36, 54):
\* the two readings are d ticks apart, d = 0 when the clock did not move
\* between them.
RLCheck(k) ==
    \E d \in 0 .. MaxCreateDelay :
        LET fresh == k \notin DOMAIN request_buckets
            b0 == IF fresh THEN NewBucket(MaxRequests, now + d)
                           ELSE request_buckets[k]
            out == CheckOutcome(b0, now)
        IN  /\ fresh \/ d = 0
            /\ rl_left > 0
            /\ rl_left' = rl_left - 1
            /\ now' = now + d
            /\ request_buckets' = PutBucket(request_buckets, k, out.bucket)
            /\ rl_last' = [op |-> "check", key |-> k, fresh |-> fresh,
                           at |-> now, delay |-> d,
                           allowed |-> out.allowed,
                           remaining |-> out.remaining,
                           retry_after_seconds |-> out.retry_after_seconds,
                           below_at |-> below_since[k].at,
                           denied_before |-> below_since[k].denied]
            /\ streak' = StreakAfterCall(k, fresh, d,
                           [allowed |-> out.allowed,
                            remaining |-> out.remaining])
            /\ below_since' = [below_since EXCEPT ![k] =
                                  BelowAfterCall(@, out, now)]

CheckRateLimit(k) ==
    /\ RLCheck(k)
    /\ UNCHANGED <<token_buckets, chat_vars>>

\* One consume_tokens(k, n) call; the token bucket of a new key is created
\* the same way.
ConsumeTokens(k, n) ==
    \E d \in 0 .. MaxCreateDelay :
        LET fresh == k \notin DOMAIN token_buckets
            b0 == IF fresh THEN NewBucket(MaxTokens, now + d)
                           ELSE token_buckets[k]
            out == ConsumeOutcome(b0, n, now)
        IN  /\ fresh \/ d = 0
            /\ rl_left > 0
            /\ rl_left' = rl_left - 1
            /\ now' = now + d
            /\ token_buckets' = PutBucket(token_buckets, k, out.bucket)
            /\ rl_last' = [op |-> "consume", key |-> k, fresh |-> fresh,
                           at |-> now, delay |-> d, n |-> n,
                           before |-> b0.tokens,
                           refilled |-> out.refilled,
                           ok |-> out.ok]
            /\ streak' = [x \in Keys |->
                            IF d > 0 THEN <<>> ELSE streak[x]]
            /\ UNCHANGED <<request_buckets, below_since, chat_vars>>

\* Time passes between two calls: dt ticks.
TickBy(dt) ==
    /\ rl_left > 0
    /\ rl_left' = rl_left - 1
    /\ now' = now + dt
    /\ streak' = [x \in Keys |-> <<>>]
    /\ UNCHANGED <<request_buckets, token_buckets, rl_last, below_since,
                   chat_vars>>

\* Time passes between two calls.
Tick ==
    \E dt \in TickSteps :
        /\ rl_left > 0
        /\ rl_left' = rl_left - 1
        /\ now' = now + dt
        /\ streak' = [x \in Keys |-> <<>>]
        /\ UNCHANGED <<request_buckets, token_buckets, rl_last, below_since,
                       chat_vars>>

\* ------------------------------------------------------------- router
Provider(backend, model) == [provider_name |-> backend, model_name |-> model]

NoProvider == Provider(None, None)

\* ModelRouter.__init__: one provider per model of each backend whose API
\* key is set, none for a backend without one.
Registered(openai_key, gemini_key) ==
    [m \in (IF openai_key THEN OpenAIModels ELSE {})
            \cup (IF gemini_key THEN GeminiModels ELSE {}) |->
        IF m \in OpenAIModels THEN Provider("openai", m)
                              ELSE Provider("gemini", m)]

\* `model or self.default_model`: None and the empty string are both falsy.
Resolve(model) == IF model \in {None, ""} THEN DefaultModel ELSE model

\* get_provider(model): the provider, or the ValueError with the model
\* asked for and the models available.
GetProviderShortList(model) ==
    LET m == Resolve(model) IN
    IF m \notin DOMAIN providers
    THEN [ok |-> FALSE, asked |-> model, resolved |-> m,
          provider |-> NoProvider,
          available |-> DOMAIN providers \cap OpenAIModels]
    ELSE [ok |-> TRUE, asked |-> model, resolved |-> m,
          provider |-> providers[m], available |-> {}]

GetProvider(model) ==
    LET m == Resolve(model) IN
    IF m \notin DOMAIN providers
    THEN [ok |-> FALSE, asked |-> model, resolved |-> m,
          provider |-> NoProvider, available |-> DOMAIN providers]
    ELSE [ok |-> TRUE, asked |-> model, resolved |-> m,
          provider |-> providers[m], available |-> {}]

\* no get_provider call yet
NoLookup == [ok |-> FALSE, asked |-> "<no call>", resolved |-> None,
             provider |-> NoProvider, available |-> {}]

\* ------------------------------------------------------------ history
Reverse(q) == [i \in 1 .. Len(q) |-> q[Len(q) + 1 - i]]

Row(id, sid, role, content, model, ts) ==
    [id |-> id, session_id |-> sid, role |-> role, content |-> content,
     model |-> model, timestamp |-> ts]

UpsertSessionReplacing(sess, sid, ts) ==
    [x \in DOMAIN sess \cup {sid} |->
        IF x # sid THEN sess[x]
        ELSE [created_at |-> ts, last_active |-> ts]]

\* add_message, first statement: INSERT INTO sessions ... ON CONFLICT DO
\* UPDATE SET last_active.
UpsertSession(sess, sid, ts) ==
    [x \in DOMAIN sess \cup {sid} |->
        IF x # sid THEN sess[x]
        ELSE IF sid \in DOMAIN sess
             THEN [sess[sid] EXCEPT !.last_active = ts]
             ELSE [created_at |-> ts, last_active |-> ts]]

InsertMessageFirst(msgs, row) == <<row>> \o msgs

\* add_message, second statement: INSERT INTO messages.
InsertMessage(msgs, row) == Append(msgs, row)

SessionRows(msgs, sid) == SelectSeq(msgs, LAMBDA r : r.session_id = sid)

\* get_history.  Without a limit: ORDER BY id ASC.  With one: the inner
\* SELECT takes the newest `limit` rows, newest first (a negative LIMIT is
\* no limit in SQLite); the outer ORDER BY rowid orders by the rowid of the
\* subquery, not by messages.id, and leaves the rows newest first.
GetHistory(msgs, sid, limit) ==
    LET rows == SessionRows(msgs, sid)
        desc == Reverse(rows)
    IN  IF limit = NoLimit THEN rows
        ELSE IF limit < 0 THEN desc
        ELSE SubSeq(desc, 1, Min(limit, Len(desc)))

SystemMessage == [role |-> "system", content |-> <<"S">>, id |-> 0]

\* _build_messages: the system prompt, then the user and assistant messages
\* of get_history(session_id, limit=20) in the order it returns them.  (A
\* ChatMessage holds role and content; id is kept to tell the rows apart.)
BuildMessages(msgs, sid) ==
    LET h == SelectSeq(GetHistory(msgs, sid, HistoryLimit),
                       LAMBDA r : r.role \in {"user", "assistant"})
    IN  <<SystemMessage>> \o
        [i \in 1 .. Len(h) |->
            [role |-> h[i].role, content |-> h[i].content, id |-> h[i].id]]

\* delete_session, first statement: DELETE FROM messages WHERE session_id.
DeleteMessagesAll(msgs, sid) == << >>

DeleteMessages(msgs, sid) == SelectSeq(msgs, LAMBDA r : r.session_id # sid)

\* delete_session, second statement: DELETE FROM sessions WHERE session_id.
DeleteSessionRow(sess, sid) == [x \in DOMAIN sess \ {sid} |-> sess[x]]

\* no ConversationHistory call made directly yet
NoHistoryCall ==
    [op |-> "none", session |-> None, limit |-> NoLimit, result |-> << >>,
     ok |-> FALSE, count |-> 0, before |-> << >>, before_sessions |-> << >>,
     adds |-> [x \in SessionIds |-> 0]]

\* add_message(session_id, role, content, model): the session is upserted
\* and the row inserted in one transaction.  `adds` counts the calls per
\* session since the session was last deleted; the clock moves on between
\* two calls.
AddMessage(sid, role, content, model) ==
    /\ next_id <= MaxRows
    /\ now' = now + 1
    /\ LET row == Row(next_id, sid, role, content, model, now') IN
       /\ sessions' = UpsertSession(sessions, sid, now')
       /\ messages' = InsertMessage(messages, row)
       /\ next_id' = next_id + 1
       /\ history_last' =
             [op |-> "add", session |-> sid, limit |-> NoLimit,
              result |-> <<row>>, ok |-> TRUE, count |-> 1,
              before |-> messages,
              before_sessions |-> sessions,
              adds |-> [history_last.adds EXCEPT ![sid] = @ + 1]]
    /\ UNCHANGED <<request_buckets, token_buckets, rl_last, streak,
                   below_since, rl_left, providers, router_last, tasks,
                   turns_left>>

\* add_message whose INSERT INTO messages raises (content None violates
\* NOT NULL): the connection's context manager rolls the transaction back,
\* the upsert of the session with it, and the exception goes to the caller.
AddMessageFailsUpserted(sid, role) ==
    /\ sessions' = UpsertSession(sessions, sid, now)
    /\ history_last' =
          [op |-> "add", session |-> sid, limit |-> NoLimit,
           result |-> << >>, ok |-> FALSE, count |-> 0, before |-> messages,
           before_sessions |-> sessions, adds |-> history_last.adds]
    /\ UNCHANGED <<rl_vars, providers, router_last, messages, next_id, tasks,
                   turns_left>>

AddMessageFails(sid, role) ==
    /\ history_last' =
          [op |-> "add", session |-> sid, limit |-> NoLimit,
           result |-> << >>, ok |-> FALSE, count |-> 0, before |-> messages,
           before_sessions |-> sessions, adds |-> history_last.adds]
    /\ UNCHANGED <<rl_vars, providers, router_last, messages, sessions,
                   next_id, tasks, turns_left>>

\* get_history(session_id, limit)
GetHistoryCall(sid, limit) ==
    /\ history_last' =
          [op |-> "get", session |-> sid, limit |-> limit,
           result |-> GetHistory(messages, sid, limit), ok |-> TRUE,
           count |-> Len(GetHistory(messages, sid, limit)),
           before |-> messages, before_sessions |-> sessions,
           adds |-> history_last.adds]
    /\ UNCHANGED <<rl_vars, providers, router_last, messages, sessions,
                   next_id, tasks, turns_left>>

\* delete_session(session_id): both DELETEs in one transaction; the result
\* is whether a sessions row went.
DeleteSession(sid) ==
    /\ messages' = DeleteMessages(messages, sid)
    /\ sessions' = DeleteSessionRow(sessions, sid)
    /\ history_last' =
          [op |-> "delete", session |-> sid, limit |-> NoLimit,
           result |-> << >>, ok |-> sid \in DOMAIN sessions, count |-> 0,
           before |-> messages, before_sessions |-> sessions,
           adds |-> [history_last.adds EXCEPT ![sid] = 0]]
    /\ UNCHANGED <<rl_vars, providers, router_last, next_id, tasks,
                   turns_left>>

\* get_message_count: SELECT COUNT(*) FROM messages WHERE session_id.
MessageCountAll(msgs, sid) == Len(msgs)

MessageCount(msgs, sid) ==
    Cardinality({i \in 1 .. Len(msgs) : msgs[i].session_id = sid})

GetMessageCountCall(sid) ==
    /\ history_last' =
          [op |-> "count", session |-> sid, limit |-> NoLimit,
           result |-> << >>, ok |-> TRUE,
           count |-> MessageCount(messages, sid), before |-> messages,
           before_sessions |-> sessions, adds |-> history_last.adds]
    /\ UNCHANGED <<rl_vars, providers, router_last, messages, sessions,
                   next_id, tasks, turns_left>>

\* ChatManager.get_session_info: the whole history and its length.
GetSessionInfo(msgs, sid) ==
    LET history == GetHistory(msgs, sid, NoLimit)
    IN  [session_id |-> sid, message_count |-> Len(history),
         history |-> history]

\* GET /api/v1/sessions/{session_id}/history?limit=: the handler takes
\* `limit` and returns get_session_info(session_id), which it does not give
\* the limit to.
GetSessionHistory(sid, limit) ==
    /\ history_last' =
          [op |-> "info", session |-> sid, limit |-> limit,
           result |-> GetSessionInfo(messages, sid).history, ok |-> TRUE,
           count |-> GetSessionInfo(messages, sid).message_count,
           before |-> messages, before_sessions |-> sessions,
           adds |-> history_last.adds]
    /\ UNCHANGED <<rl_vars, providers, router_last, messages, sessions,
                   next_id, tasks, turns_left>>

\* ------------------------------------------------------------ manager
\* A request or connection slot that serves nothing.
IdleTask ==
    [kind |-> "idle", pc |-> "idle", key |-> None, session |-> None,
     model |-> None, message |-> << >>, checked |-> "none", status |-> 0,
     provider |-> NoProvider, context |-> << >>, added |-> << >>,
     calls |-> 0, response |-> << >>, full |-> << >>, relay |-> << >>,
     frames |-> << >>, turn |-> 0, persist |-> "none"]

\* "done": the handler has returned; "failed": an exception ended it;
\* "cancelled": the client went away and the response was abandoned.
Free(t) == tasks[t].pc \in {"idle", "done", "failed", "cancelled"}

\* A new request or connection takes the first slot that serves nothing.
FirstFree(t) == Free(t) /\ \A u \in TaskIds : u < t => ~Free(u)

\* The user message of a turn, as chat and chat_stream store it: tagged
\* with the model the request asked for.
UserRow(sid, message, model) ==
    Row(next_id, sid, "user", message, model, now')

\* The assistant message of a non-streaming turn: the content and the
\* model of the ChatResponse.
AssistantRowRequestedModel(t, response) ==
    Row(next_id, tasks[t].session, "assistant", response.content,
        tasks[t].model, now)

AssistantRow(t, response) ==
    Row(next_id, tasks[t].session, "assistant", response.content,
        response.model, now)

\* --------------------------------------------- how a failed turn ends
\* chat's `except ValueError`: the handler answers 400.
Http400(task) == [task EXCEPT !.pc = "done", !.status = 400]

\* One frame of an event stream or of a WebSocket reply.
Frame(type, token, model, total_length) ==
    [type |-> type, token |-> token, model |-> model,
     total_length |-> total_length]

TokenFrame(token) == Frame("token", token, None, 0)

DoneFrame(model, text) == Frame("done", << >>, model, Len(text))

ErrorFrame == Frame("error", << >>, None, 0)

SseErrorSilent(task) == [task EXCEPT !.pc = "done"]

\* sse_stream's `except Exception`: one error frame, and the stream ends.
SseError(task) ==
    [task EXCEPT !.pc = "done", !.frames = Append(@, ErrorFrame)]

WsErrorClosing(task) ==
    [task EXCEPT !.pc = "failed", !.frames = Append(@, ErrorFrame)]

\* stream_to_websocket's `except Exception`: one error frame; the handler's
\* loop goes on to the next receive.
WsError(task) ==
    [task EXCEPT !.pc = "recv", !.frames = Append(@, ErrorFrame)]

\* How each entry point reports the ValueError of get_provider.
TurnFailed(task) ==
    IF task.kind = "chat" THEN Http400(task)
    ELSE IF task.kind = "sse" THEN SseError(task)
    ELSE WsError(task)

\* ChatManager.chat / chat_stream up to the first await: store the user
\* message, build the context, look the provider up.  `task` is the slot's
\* record so far; the result is the record the turn goes on with, or ends
\* with when get_provider raises.
TurnStart(t, task, pcNext) ==
    LET row == UserRow(task.session, task.message, task.model)
        msgs1 == InsertMessage(messages, row)
        gp == GetProvider(task.model)
    IN  /\ sessions' = UpsertSession(sessions, task.session, now')
        /\ messages' = msgs1
        /\ next_id' = next_id + 1
        /\ router_last' = gp
        /\ tasks' = [tasks EXCEPT ![t] =
              LET started == [task EXCEPT
                                !.added = <<row>>,
                                !.context = BuildMessages(msgs1, task.session)]
              IN  IF gp.ok
                  THEN [started EXCEPT !.pc = pcNext, !.calls = 1,
                                       !.provider = gp.provider]
                  ELSE TurnFailed(started)]

\* ------------------------------------------------- POST /api/v1/chat
\* The handler up to `await provider.generate(...)`: the rate limit check,
\* 429 if it denies, else ChatManager.chat.
HttpChat(t, key, sid, model, message) ==
    /\ FirstFree(t)
    /\ turns_left > 0
    /\ turns_left' = turns_left - 1
    /\ RLCheck(key)
    /\ UNCHANGED token_buckets
    /\ LET task == [IdleTask EXCEPT !.kind = "chat", !.key = key,
                       !.session = sid, !.model = model,
                       !.message = message,
                       !.checked = IF rl_last'.allowed THEN "allowed"
                                                       ELSE "denied"]
       IN  IF rl_last'.allowed
           THEN TurnStart(t, task, "generate")
           ELSE /\ tasks' = [tasks EXCEPT ![t] =
                      [task EXCEPT !.pc = "done", !.status = 429]]
                /\ UNCHANGED <<messages, sessions, next_id, router_last>>
    /\ UNCHANGED <<providers, history_last>>

\* provider.generate returns: store the assistant message, answer 200.
GenerateReturns(t, content) ==
    /\ tasks[t].kind = "chat" /\ tasks[t].pc = "generate"
    /\ LET response == [content |-> content,
                        model |-> tasks[t].provider.model_name]
           row == AssistantRow(t, response)
       IN  /\ sessions' = UpsertSession(sessions, tasks[t].session, now)
           /\ messages' = InsertMessage(messages, row)
           /\ next_id' = next_id + 1
           /\ tasks' = [tasks EXCEPT ![t] =
                 [@ EXCEPT !.pc = "done", !.status = 200,
                           !.response = response,
                           !.added = Append(@, row)]]
    /\ UNCHANGED <<rl_vars, providers, history_last, router_last, turns_left>>

GenerateRaisesStoring(t) ==
    /\ tasks[t].kind = "chat" /\ tasks[t].pc = "generate"
    /\ LET row == Row(next_id, tasks[t].session, "assistant", << >>,
                      tasks[t].provider.model_name, now)
       IN  /\ sessions' = UpsertSession(sessions, tasks[t].session, now)
           /\ messages' = InsertMessage(messages, row)
           /\ next_id' = next_id + 1
           /\ tasks' = [tasks EXCEPT ![t] =
                 [@ EXCEPT !.pc = "done", !.status = 500]]
    /\ UNCHANGED <<rl_vars, providers, history_last, router_last, turns_left>>

\* provider.generate raises: nothing more is stored, the handler answers 500.
GenerateRaises(t) ==
    /\ tasks[t].kind = "chat" /\ tasks[t].pc = "generate"
    /\ tasks' = [tasks EXCEPT ![t] = [@ EXCEPT !.pc = "done", !.status = 500]]
    /\ UNCHANGED <<rl_vars, providers, history_last, router_last, messages, sessions,
                   next_id, turns_left>>

\* ------------------------------------------ POST /api/v1/chat/stream
\* The handler: the rate limit check, 429 if it denies; else it creates the
\* chat_stream generator, of which nothing runs yet, and returns the
\* StreamingResponse (status 200).
HttpChatStream(t, key, sid, model, message) ==
    /\ FirstFree(t)
    /\ turns_left > 0
    /\ turns_left' = turns_left - 1
    /\ RLCheck(key)
    /\ LET task == [IdleTask EXCEPT !.kind = "sse", !.key = key,
                       !.session = sid, !.model = model,
                       !.message = message,
                       !.checked = IF rl_last'.allowed THEN "allowed"
                                                       ELSE "denied"]
       IN  tasks' = [tasks EXCEPT ![t] =
               IF rl_last'.allowed
               THEN [task EXCEPT !.pc = "open", !.status = 200]
               ELSE [task EXCEPT !.pc = "done", !.status = 429]]
    /\ UNCHANGED <<token_buckets, providers, history_last, router_last, messages, sessions,
                   next_id>>

\* The response body is first iterated: sse_stream enters chat_stream, which
\* runs up to the provider's first await.
SseStart(t) ==
    /\ tasks[t].kind = "sse" /\ tasks[t].pc = "open"
    /\ UNCHANGED rl_vars
    /\ TurnStart(t, tasks[t], "stream")
    /\ UNCHANGED <<providers, history_last, turns_left>>

\* ------------------------------------------------ /ws/chat/{session_id}
\* websocket.accept(): no API key is asked for and no rate limit checked.
WsConnect(t, sid) ==
    /\ FirstFree(t)
    /\ turns_left > 0
    /\ tasks' = [tasks EXCEPT ![t] =
          [IdleTask EXCEPT !.kind = "ws", !.pc = "recv", !.session = sid]]
    /\ UNCHANGED <<rl_vars, providers, history_last, router_last, messages, sessions,
                   next_id, turns_left>>

\* One inbound {message, model} frame: an empty message is answered with an
\* error frame; any other starts chat_stream, which stream_to_websocket
\* runs up to the provider's first await.
WsReceive(t, model, message) ==
    /\ tasks[t].kind = "ws" /\ tasks[t].pc = "recv"
    /\ turns_left > 0
    /\ turns_left' = turns_left - 1
    /\ UNCHANGED rl_vars
    /\ LET task == [IdleTask EXCEPT !.kind = "ws",
                       !.session = tasks[t].session, !.model = model,
                       !.message = message,
                       !.turn = tasks[t].turn + 1]
       IN  IF message = << >>
           THEN /\ tasks' = [tasks EXCEPT ![t] = WsError(task)]
                /\ UNCHANGED <<messages, sessions, next_id, router_last>>
           ELSE TurnStart(t, task, "stream")
    /\ UNCHANGED <<providers, history_last>>

\* receive_text raises WebSocketDisconnect: the handler returns.
WsDisconnect(t) ==
    /\ tasks[t].kind = "ws" /\ tasks[t].pc = "recv"
    /\ tasks' = [tasks EXCEPT ![t] = [@ EXCEPT !.pc = "done"]]
    /\ UNCHANGED <<rl_vars, providers, history_last, router_last, messages, sessions,
                   next_id, turns_left>>

\* ------------------------------------------- streaming, both transports
Streaming(t) == tasks[t].kind \in {"sse", "ws"} /\ tasks[t].pc = "stream"

TokensSent(t) ==
    Len(SelectSeq(tasks[t].frames, LAMBDA f : f.type = "token"))

\* where a transport goes when a turn's reply is complete
AfterTurn(task) == IF task.kind = "ws" THEN "recv" ELSE "done"

StreamTokenNewestFirst(t, token) ==
    /\ Streaming(t)
    /\ TokensSent(t) < MaxStream
    /\ tasks' = [tasks EXCEPT ![t] =
          [@ EXCEPT !.full = @ \o token, !.relay = token \o @,
                    !.frames = <<TokenFrame(token)>> \o @]]
    /\ UNCHANGED <<rl_vars, providers, history_last, router_last, messages, sessions,
                   next_id, turns_left>>

\* The provider yields a token: chat_stream adds it to full_response and
\* yields it; the relay adds it to its own full_response and sends the
\* token frame.
StreamToken(t, token) ==
    /\ Streaming(t)
    /\ TokensSent(t) < MaxStream
    /\ tasks' = [tasks EXCEPT ![t] =
          [@ EXCEPT !.full = @ \o token, !.relay = @ \o token,
                    !.frames = Append(@, TokenFrame(token))]]
    /\ UNCHANGED <<rl_vars, providers, history_last, router_last, messages, sessions,
                   next_id, turns_left>>

\* The assistant message of a streaming turn: the accumulated text, tagged
\* with the provider's model_name.
StreamedRow(t) ==
    Row(next_id, tasks[t].session, "assistant", tasks[t].full,
        tasks[t].provider.model_name, now)

\* The provider's stream ends: chat_stream stores the assistant message and
\* ends; the relay then sends the done frame, with the model the handler
\* gave it (`request.model or _router.default_model`).
StreamEnds(t) ==
    /\ Streaming(t)
    /\ sessions' = UpsertSession(sessions, tasks[t].session, now)
    /\ messages' = InsertMessage(messages, StreamedRow(t))
    /\ next_id' = next_id + 1
    /\ tasks' = [tasks EXCEPT ![t] =
          [@ EXCEPT !.pc = AfterTurn(tasks[t]),
                    !.added = Append(@, StreamedRow(t)),
                    !.persist = "stored",
                    !.frames = Append(@, DoneFrame(Resolve(tasks[t].model),
                                                   tasks[t].relay))]]
    /\ UNCHANGED <<rl_vars, providers, history_last, router_last, turns_left>>

StreamRaisesStoring(t) ==
    /\ Streaming(t)
    /\ sessions' = UpsertSession(sessions, tasks[t].session, now)
    /\ messages' = InsertMessage(messages, StreamedRow(t))
    /\ next_id' = next_id + 1
    /\ tasks' = [tasks EXCEPT ![t] =
          [@ EXCEPT !.pc = AfterTurn(tasks[t]),
                    !.added = Append(@, StreamedRow(t)),
                    !.frames = Append(@, ErrorFrame)]]
    /\ UNCHANGED <<rl_vars, providers, history_last, router_last, turns_left>>

\* The provider raises, before its first token or between two: chat_stream
\* lets the exception through, the relay sends an error frame.
StreamRaises(t) ==
    /\ Streaming(t)
    /\ tasks' = [tasks EXCEPT ![t] =
          [@ EXCEPT !.pc = AfterTurn(tasks[t]), !.frames = Append(@, ErrorFrame)]]
    /\ UNCHANGED <<rl_vars, providers, history_last, router_last, messages, sessions,
                   next_id, turns_left>>

StreamPersistFailsDone(t) ==
    /\ Streaming(t)
    /\ tasks' = [tasks EXCEPT ![t] =
          [@ EXCEPT !.pc = AfterTurn(tasks[t]), !.persist = "failed",
                    !.frames = Append(@, DoneFrame(Resolve(tasks[t].model),
                                                   tasks[t].relay))]]
    /\ UNCHANGED <<rl_vars, providers, history_last, router_last, messages, sessions,
                   next_id, turns_left>>

\* The provider's stream ends and chat_stream's add_message of the assistant
\* message raises (the database cannot be written): the transaction is
\* rolled back, the exception leaves chat_stream inside the relay's
\* `async for`, and the relay's `except Exception` sends an error frame.
StreamPersistFails(t) ==
    /\ Streaming(t)
    /\ tasks' = [tasks EXCEPT ![t] =
          [@ EXCEPT !.pc = AfterTurn(tasks[t]), !.persist = "failed",
                    !.frames = Append(@, ErrorFrame)]]
    /\ UNCHANGED <<rl_vars, providers, history_last, router_last, messages, sessions,
                   next_id, turns_left>>

SseClientDisconnectsStoring(t) ==
    /\ Streaming(t) /\ tasks[t].kind = "sse"
    /\ sessions' = UpsertSession(sessions, tasks[t].session, now)
    /\ messages' = InsertMessage(messages, StreamedRow(t))
    /\ next_id' = next_id + 1
    /\ tasks' = [tasks EXCEPT ![t] =
          [@ EXCEPT !.pc = "cancelled",
                    !.added = Append(@, StreamedRow(t))]]
    /\ UNCHANGED <<rl_vars, providers, history_last, router_last, turns_left>>

\* The client of an SSE response goes away before the provider's stream has
\* ended: the response stops iterating sse_stream, which is cancelled or
\* closed at its await or yield.  CancelledError and GeneratorExit are not
\* `Exception`s, so sse_stream sends nothing more, and chat_stream, closed
\* inside its `async for`, never reaches its add_message.
SseClientDisconnects(t) ==
    /\ Streaming(t) /\ tasks[t].kind = "sse"
    /\ tasks' = [tasks EXCEPT ![t] = [@ EXCEPT !.pc = "cancelled"]]
    /\ UNCHANGED <<rl_vars, providers, history_last, router_last, messages, sessions,
                   next_id, turns_left>>

\* A WebSocket turn whose token frame cannot be sent (the client is gone):
\* the token is in both full_response buffers, send_json raises, and
\* stream_to_websocket's `except Exception` sends the error frame.  When
\* that send raises as well (`again`) the exception leaves
\* stream_to_websocket and ends websocket_chat's loop; when it does not,
\* the loop goes on.  chat_stream is left suspended at its yield and stores
\* nothing.
WsSendFails(t, token, again) ==
    /\ Streaming(t) /\ tasks[t].kind = "ws"
    /\ TokensSent(t) < MaxStream
    /\ tasks' = [tasks EXCEPT ![t] =
          [@ EXCEPT !.full = @ \o token, !.relay = @ \o token,
                    !.pc = IF again THEN "failed" ELSE "recv",
                    !.frames = IF again THEN @ ELSE Append(@, ErrorFrame)]]
    /\ UNCHANGED <<rl_vars, providers, history_last, router_last, messages, sessions,
                   next_id, turns_left>>

\* ---------------------------------------------------- specifications
\* The components as the lifespan handler builds them (main.py 44-47): a
\* router for the API keys set, an empty history, a fresh rate limiter.
ChatInit(openai_key, gemini_key, turns) ==
    /\ providers = Registered(openai_key, gemini_key)
    /\ router_last = NoLookup
    /\ history_last = NoHistoryCall
    /\ messages = << >>
    /\ sessions = << >>
    /\ next_id = 1
    /\ tasks = [t \in TaskIds |-> IdleTask]
    /\ turns_left = turns

\* A RateLimiter as __init__ leaves it (lines 29-40), with n steps to explore.
RateLimiterInit(n) ==
    /\ now = 0
    /\ request_buckets = << >>
    /\ token_buckets = << >>
    /\ rl_last = NoCall
    /\ streak = [x \in Keys |-> <<>>]
    /\ below_since = [x \in Keys |-> NotBelow]
    /\ rl_left = n
    /\ ChatInit(FALSE, FALSE, 0)

\* check_rate_limit calls only
InitReq == RateLimiterInit(MaxSteps)

NextReq ==
    \/ \E k \in Keys : CheckRateLimit(k)
    \/ Tick

SpecReq == InitReq /\ [][NextReq]_vars

\* consume_tokens calls only
InitTok == RateLimiterInit(MaxTokSteps)

NextTok ==
    \/ \E k \in Keys, n \in TokenCounts : ConsumeTokens(k, n)
    \/ Tick

SpecTok == InitTok /\ [][NextTok]_vars

\* both methods
InitRL == RateLimiterInit(MaxMixSteps)

NextRL ==
    \/ \E k \in Keys : CheckRateLimit(k)
    \/ \E k \in Keys, n \in TokenCounts : ConsumeTokens(k, n)
    \/ Tick

SpecRL == InitRL /\ [][NextRL]_vars

\* POST /api/v1/chat alone, with every model input and every combination
\* of API keys set
InitChat ==
    /\ now = 0
    /\ request_buckets = << >>
    /\ token_buckets = << >>
    /\ rl_last = NoCall
    /\ streak = [x \in Keys |-> <<>>]
    /\ below_since = [x \in Keys |-> NotBelow]
    /\ rl_left = MaxChatTurns
    /\ \E openai_key \in BOOLEAN, gemini_key \in BOOLEAN :
          ChatInit(openai_key, gemini_key, MaxChatTurns)

NextChat ==
    \/ \E t \in TaskIds, key \in ValidKeys, sid \in SessionIds,
          model \in ModelInputs, message \in UserMessages :
          HttpChat(t, key, sid, model, message)
    \/ \E t \in TaskIds, content \in Contents : GenerateReturns(t, content)
    \/ \E t \in TaskIds : GenerateRaises(t)

SpecChat == InitChat /\ [][NextChat]_vars

\* more POST /api/v1/chat requests with one API key than the limit admits,
\* their tasks interleaved at the awaits, and the clock standing still
AdmitSteps == MaxRequests + 2

InitAdmit ==
    /\ now = 0
    /\ request_buckets = << >>
    /\ token_buckets = << >>
    /\ rl_last = NoCall
    /\ streak = [x \in Keys |-> <<>>]
    /\ below_since = [x \in Keys |-> NotBelow]
    /\ rl_left = AdmitSteps
    /\ ChatInit(TRUE, TRUE, AdmitSteps)

NextAdmit ==
    \/ \E t \in TaskIds, sid \in SessionIds, message \in UserMessages :
          HttpChat(t, "key1", sid, None, message)
    \/ \E t \in TaskIds, content \in Contents : GenerateReturns(t, content)
    \/ \E t \in TaskIds : GenerateRaises(t)

SpecAdmit == InitAdmit /\ [][NextAdmit]_vars

\* check_rate_limit calls with one key, the clock advancing between them by
\* one tick or by one tick less than a request token takes to refill
RecoverySteps == {1, Scale \div MaxRequests - 1}

InitRecover == RateLimiterInit(MaxSteps)

NextRecover ==
    \/ CheckRateLimit("key1")
    \/ \E dt \in RecoverySteps : TickBy(dt)

SpecRecover == InitRecover /\ [][NextRecover]_vars

\* turns of both kinds on one session, interleaved at their awaits with
\* each other and with DELETE /api/v1/sessions/{session_id}
InitDelete ==
    /\ now = 0
    /\ request_buckets = << >>
    /\ token_buckets = << >>
    /\ rl_last = NoCall
    /\ streak = [x \in Keys |-> <<>>]
    /\ below_since = [x \in Keys |-> NotBelow]
    /\ rl_left = MaxChatTurns
    /\ ChatInit(TRUE, TRUE, MaxChatTurns)

NextDelete ==
    \/ \E t \in TaskIds : HttpChat(t, "key1", "s1", None, <<"h", "i">>)
    \/ \E t \in TaskIds : GenerateReturns(t, <<"o", "k">>)
    \/ \E t \in TaskIds : GenerateRaises(t)
    \/ \E t \in TaskIds : HttpChatStream(t, "key1", "s1", None, <<"h", "i">>)
    \/ \E t \in TaskIds : SseStart(t)
    \/ \E t \in TaskIds : StreamToken(t, <<"a">>)
    \/ \E t \in TaskIds : StreamEnds(t)
    \/ DeleteSession("s1")

SpecDelete == InitDelete /\ [][NextDelete]_vars

\* one request or connection at a time
Sequential == {1}

\* the three entry points used one after the other, with every token the
\* provider may yield and with frames that cannot be sent
InitStream ==
    /\ now = 0
    /\ request_buckets = << >>
    /\ token_buckets = << >>
    /\ rl_last = NoCall
    /\ streak = [x \in Keys |-> <<>>]
    /\ below_since = [x \in Keys |-> NotBelow]
    /\ rl_left = MaxStreamTurns
    /\ ChatInit(TRUE, TRUE, MaxStreamTurns)

NextStream ==
    \/ \E t \in Sequential, key \in ValidKeys, model \in {None, "gpt-5"},
          message \in UserMessages :
          HttpChat(t, key, "s1", model, message)
    \/ \E t \in Sequential : GenerateReturns(t, <<"o", "k">>)
    \/ \E t \in Sequential : GenerateRaises(t)
    \/ \E t \in Sequential, key \in ValidKeys, model \in {None, "gpt-5"},
          message \in UserMessages :
          HttpChatStream(t, key, "s1", model, message)
    \/ \E t \in Sequential : SseStart(t)
    \/ \E t \in Sequential : WsConnect(t, "s1")
    \/ \E t \in Sequential, model \in {None, "gpt-5"},
          message \in UserMessages \cup {<< >>} : WsReceive(t, model, message)
    \/ \E t \in Sequential : WsDisconnect(t)
    \/ \E t \in Sequential, token \in Tokens : StreamToken(t, token)
    \/ \E t \in Sequential : StreamEnds(t)
    \/ \E t \in Sequential : StreamRaises(t)
    \/ \E t \in Sequential, token \in Tokens, again \in BOOLEAN :
          WsSendFails(t, token, again)
    \/ \E t \in Sequential : StreamPersistFails(t)
    \/ \E t \in Sequential : SseClientDisconnects(t)

SpecStream == InitStream /\ [][NextStream]_vars

\* ConversationHistory called directly, as the endpoints and the tests do
InitHist ==
    /\ now = 0
    /\ request_buckets = << >>
    /\ token_buckets = << >>
    /\ rl_last = NoCall
    /\ streak = [x \in Keys |-> <<>>]
    /\ below_since = [x \in Keys |-> NotBelow]
    /\ rl_left = 0
    /\ ChatInit(FALSE, FALSE, 0)

NextHist ==
    \/ \E sid \in SessionIds, role \in Roles :
          AddMessage(sid, role, <<"h", "i">>, None)
    \/ \E sid \in SessionIds, limit \in Limits : GetHistoryCall(sid, limit)
    \/ \E sid \in SessionIds : DeleteSession(sid)
    \/ \E sid \in SessionIds, role \in Roles : AddMessageFails(sid, role)
    \/ \E sid \in SessionIds : GetMessageCountCall(sid)
    \/ \E sid \in SessionIds, limit \in EndpointLimits :
          GetSessionHistory(sid, limit)

SpecHist == InitHist /\ [][NextHist]_vars

\* the whole application: the three chat entry points together
Init ==
    /\ now = 0
    /\ request_buckets = << >>
    /\ token_buckets = << >>
    /\ rl_last = NoCall
    /\ streak = [x \in Keys |-> <<>>]
    /\ below_since = [x \in Keys |-> NotBelow]
    /\ rl_left = MaxTurns
    /\ ChatInit(TRUE, TRUE, MaxTurns)

\* every entry point is tried with one session, with no model named or one
\* that no backend has, and with one answer of the provider
Next ==
    \/ \E t \in TaskIds, key \in ValidKeys, model \in {None, "gpt-5"},
          message \in UserMessages :
          HttpChat(t, key, "s1", model, message)
    \/ \E t \in TaskIds : GenerateReturns(t, <<"o", "k">>)
    \/ \E t \in TaskIds : GenerateRaises(t)
    \/ \E t \in TaskIds, key \in ValidKeys, model \in {None, "gpt-5"},
          message \in UserMessages :
          HttpChatStream(t, key, "s1", model, message)
    \/ \E t \in TaskIds : SseStart(t)
    \/ \E t \in TaskIds : WsConnect(t, "s1")
    \/ \E t \in TaskIds, model \in {None, "gpt-5"},
          message \in UserMessages \cup {<< >>} : WsReceive(t, model, message)
    \/ \E t \in TaskIds : WsDisconnect(t)
    \/ \E t \in TaskIds : StreamToken(t, <<"a">>)
    \/ \E t \in TaskIds : StreamEnds(t)
    \/ \E t \in TaskIds : StreamRaises(t)

Spec == Init /\ [][Next]_vars

\* ------------------------------------------------ rate limiter: claims
\* The bucket of key k in a bucket dict, as a set: empty when k has none.
BucketOf(buckets, k) == {buckets[x] : x \in DOMAIN buckets \cap {k}}

\* C1: in every reachable state each request-bucket level lies in
\* [0, max_requests] and each token-bucket level in [0, max_tokens].
BucketLevelsInRange ==
    /\ \A k \in DOMAIN request_buckets :
          /\ request_buckets[k].tokens >= 0
          /\ request_buckets[k].tokens <= MaxRequests * Scale
    /\ \A k \in DOMAIN token_buckets :
          /\ token_buckets[k].tokens >= 0
          /\ token_buckets[k].tokens <= MaxTokens * Scale

\* C2: the first check_rate_limit call for a key that has no bucket yet is
\* allowed and reports remaining = max_requests - 1.
FirstCheckRemaining ==
    (rl_last.op = "check" /\ rl_last.fresh) =>
        (rl_last.allowed /\ rl_last.remaining = MaxRequests - 1)

\* C3: for a fresh key with no time elapsing between the calls, each of the
\* first max_requests check_rate_limit calls is allowed, the i-th reporting
\* remaining = max_requests - i, and the next call is denied with
\* remaining = 0.
StreakToBoundary ==
    \A k \in Keys : \A i \in 1 .. Len(streak[k]) :
        /\ i <= MaxRequests =>
              (streak[k][i].allowed /\ streak[k][i].remaining = MaxRequests - i)
        /\ i = MaxRequests + 1 =>
              (~streak[k][i].allowed /\ streak[k][i].remaining = 0)

\* C4 as stated: consume_tokens(key, n) returns false and leaves the stored
\* token level as it was before the call whenever n exceeds the current
\* balance; otherwise it returns true and the balance decreases by exactly n.
\* (Read in the claim's favour: "unchanged" is asked only of a bucket that
\* existed before the call and was within its capacity.)
ConsumeFailsUnchanged ==
    rl_last.op = "consume" =>
        LET level == token_buckets[rl_last.key].tokens IN
        IF rl_last.n * Scale > rl_last.refilled
        THEN /\ ~rl_last.ok
             /\ \/ rl_last.fresh
                \/ rl_last.before > MaxTokens * Scale
                \/ level = rl_last.before
        ELSE rl_last.ok /\ level = rl_last.refilled - rl_last.n * Scale

\* C4 as amended: consume_tokens(key, n) returns false and consumes nothing
\* whenever n exceeds the refilled balance (the bucket is left at the
\* refilled balance, the refill itself being kept); otherwise it returns
\* true and the refilled balance decreases by exactly n.
ConsumeAllOrNothing ==
    rl_last.op = "consume" =>
        LET level == token_buckets[rl_last.key].tokens IN
        IF rl_last.n * Scale > rl_last.refilled
        THEN ~rl_last.ok /\ level = rl_last.refilled
        ELSE rl_last.ok /\ level = rl_last.refilled - rl_last.n * Scale

\* a refused consume_tokens call that found the bucket refilled since the
\* last call
ConsumeRefusedAfterRefill ==
    /\ rl_last.op = "consume"
    /\ ~rl_last.ok
    /\ rl_last.n > 0
    /\ rl_last.refilled > rl_last.before

\* C5: a check_rate_limit or consume_tokens call on one key changes neither
\* the request bucket nor the token bucket of any other key.
KeysIndependent ==
    [][\A k \in Keys :
          (rl_last'.op # "none" /\ rl_last'.key # k) =>
              /\ BucketOf(request_buckets', k) = BucketOf(request_buckets, k)
              /\ BucketOf(token_buckets', k) = BucketOf(token_buckets, k)]_vars

\* key1 has used request and token budget, and key2, called after it, still
\* finds both of its buckets full
SecondKeyUntouched ==
    /\ rl_last.op = "consume" /\ rl_last.key = "key2" /\ rl_last.n = MaxTokens
    /\ rl_last.ok
    /\ DOMAIN request_buckets = Keys /\ DOMAIN token_buckets = Keys
    /\ request_buckets["key1"].tokens < request_buckets["key2"].tokens
    /\ token_buckets["key1"].tokens = 0
    /\ token_buckets["key2"].tokens = 0

\* C6: when check_rate_limit denies a call, retry_after_seconds equals
\* window * (1 - tokens) / capacity, and a check for the same key made
\* retry_after_seconds later, with no call in between, is allowed.
RetryAfterSuffices ==
    (rl_last.op = "check" /\ ~rl_last.allowed) =>
        LET b == request_buckets[rl_last.key] IN
        /\ rl_last.retry_after_seconds * Scale * MaxRequests
              = Window * (Scale - b.tokens)
        /\ CheckOutcome(b, rl_last.at
              + rl_last.retry_after_seconds * TicksPerSecond).allowed

\* ------------------------------------------------------ router: claims
\* C8: get_provider(model) for a registered resolved name (the explicit
\* model, or the router default when model is None) returns the provider
\* whose model_name equals that resolved name; it never returns a provider
\* for a different model.
ProviderMatchesAsked ==
    (router_last # NoLookup /\ router_last.ok) =>
        router_last.provider.model_name =
            (IF router_last.asked = None THEN DefaultModel
                                         ELSE router_last.asked)

NonStreamingTurnOrder ==
    \A t \in TaskIds :
        (tasks[t].kind = "chat" /\ tasks[t].status = 200) =>
            LET a == tasks[t].added IN
            /\ Len(a) = 2
            /\ a[1].role = "user" /\ a[1].content = tasks[t].message
            /\ a[1].model = tasks[t].model
            /\ a[2].role = "assistant"
            /\ a[2].content = tasks[t].response.content
            /\ a[2].model = tasks[t].response.model
            /\ tasks[t].response.model = tasks[t].provider.model_name
            /\ a[1].session_id = tasks[t].session
            /\ a[2].session_id = tasks[t].session
            /\ a[1].id < a[2].id
            /\ tasks[t].calls = 1
            /\ \E i \in 1 .. Len(tasks[t].context) :
                  tasks[t].context[i].id = a[1].id
            /\ \A i \in 1 .. Len(tasks[t].context) :
                  tasks[t].context[i].id < a[2].id
            /\ \E i, j \in 1 .. Len(messages) :
                  i < j /\ messages[i] = a[1] /\ messages[j] = a[2]

\* a turn that named no model has ended with 200, its assistant message
\* tagged with the default model, while another turn's message went in
\* between its two
TurnWithDefaultModelDone ==
    \E t \in TaskIds :
        /\ tasks[t].kind = "chat" /\ tasks[t].status = 200
        /\ tasks[t].model = None
        /\ tasks[t].added[2].model = DefaultModel
        /\ tasks[t].added[2].content # << >>
        /\ tasks[t].added[2].id > tasks[t].added[1].id + 1

\* ------------------------------------------------ entry points: claims
\* C7: every chat turn, by POST /api/v1/chat, POST /api/v1/chat/stream or
\* a WebSocket message, is preceded by a check_rate_limit call for the
\* requester's key; the manager runs (history or provider touched) only if
\* that check allowed it, and a denied check yields 429 with nothing stored.
TurnsAreRateChecked ==
    \A t \in TaskIds :
        /\ (tasks[t].added # << >> \/ tasks[t].calls > 0
              \/ tasks[t].context # << >>) => tasks[t].checked = "allowed"
        /\ tasks[t].checked = "denied" =>
              /\ tasks[t].status = 429
              /\ tasks[t].added = << >> /\ tasks[t].calls = 0

\* ----------------------------------------------------- context: claims
\* C11: the message list handed to the provider is the system prompt and
\* then the user and assistant messages among the 20 most recent of the
\* session, oldest first: at most 21 entries, the last of them the user
\* message of the current turn.
ContextOldestFirst ==
    \A t \in TaskIds :
        tasks[t].calls > 0 =>
            LET c == tasks[t].context IN
            /\ c[1] = SystemMessage
            /\ Len(c) <= HistoryLimit + 1
            /\ \A i, j \in 2 .. Len(c) : i < j => c[i].id < c[j].id
            /\ c[Len(c)].id = tasks[t].added[1].id

\* --------------------------------------------------- streaming: claims
\* the text of the token frames, in the order they were sent
RECURSIVE FrameText(_)
FrameText(frames) ==
    IF frames = << >> THEN << >>
    ELSE (IF Head(frames).type = "token" THEN Head(frames).token ELSE << >>)
            \o FrameText(Tail(frames))

IsPrefix(p, q) == Len(p) <= Len(q) /\ p = SubSeq(q, 1, Len(p))

\* the last frame sent is of one of the given types
LastFrameIs(task, types) ==
    task.frames # << >> /\ task.frames[Len(task.frames)].type \in types

\* C12: a streaming turn forwards the provider's tokens one at a time in
\* the order generated, none dropped, duplicated or reordered; when the
\* provider's stream ends normally exactly one assistant message is stored,
\* its content the concatenation of the forwarded tokens and its model tag
\* the provider's model_name.
\* (The relay's buffer is what chat_stream forwarded; the frames sent are a
\* prefix of it, all of it when the turn ends with done.)
StreamedInOrder ==
    \A t \in TaskIds :
        tasks[t].kind \in {"sse", "ws"} =>
            /\ tasks[t].relay = tasks[t].full
            /\ IsPrefix(FrameText(tasks[t].frames), tasks[t].full)
            /\ LastFrameIs(tasks[t], {"done"}) =>
                  LET a == tasks[t].added IN
                  /\ Len(a) = 2
                  /\ a[2].role = "assistant"
                  /\ a[2].content = tasks[t].relay
                  /\ a[2].content = FrameText(tasks[t].frames)
                  /\ a[2].model = tasks[t].provider.model_name
                  /\ a[2].session_id = tasks[t].session
                  /\ Len(SelectSeq(messages, LAMBDA r : r.id > a[1].id)) = 1
                  /\ messages[Len(messages)] = a[2]
            /\ ~LastFrameIs(tasks[t], {"done"}) => Len(tasks[t].added) <= 1

\* a WebSocket turn that named no model has relayed two different tokens
\* and ended: the stored text is "a" "b" "c" under the default model
TwoTokensStreamed ==
    \E t \in TaskIds :
        /\ tasks[t].kind = "ws" /\ tasks[t].model = None
        /\ tasks[t].frames = <<TokenFrame(<<"a">>), TokenFrame(<<"b", "c">>),
                               DoneFrame(DefaultModel, <<"a", "b", "c">>)>>
        /\ tasks[t].added[2].content = <<"a", "b", "c">>
        /\ tasks[t].added[2].model = DefaultModel

\* a turn that went into ChatManager and failed there: get_provider or the
\* provider raised
TurnFailedInManager(task) ==
    /\ task.added # << >>
    /\ \/ task.kind = "chat" /\ task.status \in {400, 500}
       \/ task.kind \in {"sse", "ws"} /\ task.pc # "stream"
            /\ ~LastFrameIs(task, {"done"})

\* C13: when a turn fails in ChatManager (unknown model, or the provider
\* raising before or during generation, streaming or not) no assistant
\* message is stored, not even the text accumulated so far: the history is
\* the one before the turn plus the turn's user message.
FailedTurnStoresUserOnly ==
    \A t \in Sequential :
        TurnFailedInManager(tasks[t]) =>
            /\ Len(tasks[t].added) = 1
            /\ tasks[t].added[1].role = "user"
            /\ messages[Len(messages)] = tasks[t].added[1]
            /\ Len(messages) = next_id - 1
            /\ \A i \in 1 .. Len(messages) : messages[i].id = i

\* a non-streaming turn ended with 500 after an earlier turn of the session
\* succeeded: three rows, the last one the failed turn's user message
GenerateFailedAfterSuccess ==
    \E t \in Sequential :
        /\ tasks[t].kind = "chat" /\ tasks[t].status = 500
        /\ Len(messages) = 3
        /\ messages[2].role = "assistant"
        /\ messages[3] = tasks[t].added[1]

\* an event stream that failed after at least one token
SseFailedMidStream(task) ==
    /\ task.kind = "sse" /\ task.pc = "done"
    /\ LastFrameIs(task, {"error"})
    /\ task.relay # << >>

\* C14, as the spec states it: when the token sequence fails in the middle
\* of an event stream, the text accumulated so far is stored as the
\* assistant message.
SsePartialStored ==
    \A t \in TaskIds :
        SseFailedMidStream(tasks[t]) =>
            /\ Len(tasks[t].added) = 2
            /\ tasks[t].added[2].content = tasks[t].relay

\* C14, as the code has it: when the token sequence fails in the middle of
\* an event stream, sse_stream sends the error frame and stores nothing;
\* the text accumulated so far is in no stored message.
SsePartialDropped ==
    \A t \in TaskIds :
        SseFailedMidStream(tasks[t]) =>
            /\ Len(tasks[t].added) = 1
            /\ \A i \in 1 .. Len(messages) :
                  messages[i].id > tasks[t].added[1].id =>
                      messages[i].role # "assistant"

\* an event stream relayed "b" "c" and then failed; the session's last
\* stored message is the user's
SseFailedAfterToken ==
    \E t \in TaskIds :
        /\ SseFailedMidStream(tasks[t])
        /\ tasks[t].relay = <<"b", "c">>
        /\ messages[Len(messages)].role = "user"

\* the frames are token frames only, but for the last, which may be a
\* terminal frame (done or error)
TokensThenTerminal(frames) ==
    \A i \in 1 .. Len(frames) :
        frames[i].type # "token" =>
            i = Len(frames) /\ frames[i].type \in {"done", "error"}

\* C15: the SSE relay emits zero or more token frames, one per upstream
\* token in order, then exactly one terminal frame, done if the upstream
\* ended normally and error if it raised, nothing after it, and it never
\* lets the upstream exception through.
\* (A response whose client has gone is cut short: no frame follows.)
SseLinear ==
    \A t \in TaskIds :
        (tasks[t].kind = "sse" /\ tasks[t].status = 200) =>
            /\ tasks[t].pc \in {"open", "stream", "done", "cancelled"}
            /\ TokensThenTerminal(tasks[t].frames)
            /\ FrameText(tasks[t].frames) = tasks[t].full
            /\ TokensSent(t) <= Len(tasks[t].full)
            /\ tasks[t].pc = "done" <=>
                  LastFrameIs(tasks[t], {"done", "error"})
            /\ LastFrameIs(tasks[t], {"done"}) <=> Len(tasks[t].added) = 2
            /\ LastFrameIs(tasks[t], {"done"}) =>
                  tasks[t].frames[Len(tasks[t].frames)] =
                      DoneFrame(Resolve(tasks[t].model), tasks[t].full)

\* an event stream for a model that is not registered: no token frame, one
\* error frame, and the response has ended
SseUnknownModelError ==
    \E t \in TaskIds :
        /\ tasks[t].kind = "sse" /\ tasks[t].status = 200
        /\ tasks[t].model = "gpt-5"
        /\ tasks[t].pc = "done"
        /\ tasks[t].frames = <<ErrorFrame>>

\* C16: on the WebSocket path no exception raised while a turn is relayed,
\* by the token sequence or by sending a frame, leaves stream_to_websocket
\* or ends the connection: each becomes a final error frame.
WsNeverFails ==
    \A t \in TaskIds :
        tasks[t].kind = "ws" =>
            /\ tasks[t].pc # "failed"
            /\ (tasks[t].pc = "recv" /\ tasks[t].added # << >>) =>
                  LastFrameIs(tasks[t], {"done", "error"})

\* C17: a WebSocket connection outlives its turns: after a turn that ended
\* with done, or with an error frame for a provider failure or an unknown
\* model, the connection is open and the next message starts a new turn
\* with a reply sequence of its own, token frames and then done or error.
WsConnectionPersists ==
    /\ [](\A t \in TaskIds :
            tasks[t].kind = "ws" =>
                /\ TokensThenTerminal(tasks[t].frames)
                /\ LastFrameIs(tasks[t], {"done", "error"}) =>
                      tasks[t].pc \in {"recv", "done"}
                /\ (tasks[t].pc = "recv" /\ turns_left > 0) =>
                      ENABLED WsReceive(t, None, <<"h", "i">>)
                /\ tasks[t].pc = "stream" =>
                      /\ tasks[t].turn > 0
                      /\ FrameText(tasks[t].frames) = tasks[t].full)
    /\ [][\A t \in TaskIds :
            (tasks[t].kind = "ws" /\ tasks[t].pc = "stream"
                /\ LastFrameIs(tasks'[t], {"done", "error"}))
              => /\ tasks'[t].pc = "recv"
                 /\ tasks'[t].turn = tasks[t].turn]_vars

\* the second turn of a connection has ended with done after its first
\* turn, for an unknown model, ended with an error frame
SecondTurnAfterError ==
    \E t \in TaskIds :
        /\ tasks[t].kind = "ws" /\ tasks[t].turn = 2
        /\ tasks[t].pc = "recv"
        /\ LastFrameIs(tasks[t], {"done"})
        /\ Len(messages) = 3
        /\ messages[1].model = "gpt-5"
        /\ messages[2].role = "user"
        /\ messages[3] = tasks[t].added[2]

\* ----------------------------------------------------- history: claims
\* the rows are in strictly ascending insertion order
Ascending(rows) ==
    \A i, j \in 1 .. Len(rows) : i < j => rows[i].id < rows[j].id

\* the rows of q as a set
Range(q) == {q[i] : i \in 1 .. Len(q)}

\* the k most recently inserted rows of a session, as a set
MostRecent(msgs, sid, k) ==
    LET rows == SessionRows(msgs, sid)
    IN  {rows[i] : i \in (Len(rows) - Min(k, Len(rows)) + 1) .. Len(rows)}

\* C18: for a session with n stored messages and a limit k, get_history
\* returns the min(k, n) most recently inserted messages, and its result is
\* in strictly ascending insertion order, with or without a limit.  (Stated
\* for k >= 1 and for no limit.)
GetHistoryAscending ==
    (history_last.op = "get" /\ history_last.limit >= 0) =>
        LET res == history_last.result
            n == Len(SessionRows(messages, history_last.session))
        IN  /\ Ascending(res)
            /\ history_last.limit = NoLimit =>
                  res = SessionRows(messages, history_last.session)
            /\ history_last.limit > 0 =>
                  /\ Len(res) = Min(history_last.limit, n)
                  /\ Range(res) = MostRecent(messages, history_last.session,
                                             history_last.limit)

\* C19: add_message to a session appends exactly one message at the end of
\* that session's history and leaves its earlier messages and every other
\* session's history as they were; after N adds to one session and M to
\* another, in any order, their histories have N and M messages.
AddAppendsOne ==
    /\ (history_last.op = "add" /\ history_last.ok) =>
          \A sid \in SessionIds :
              GetHistory(messages, sid, NoLimit) =
                  IF sid = history_last.session
                  THEN Append(GetHistory(history_last.before, sid, NoLimit),
                              history_last.result[1])
                  ELSE GetHistory(history_last.before, sid, NoLimit)
    /\ \A sid \in SessionIds :
          Len(GetHistory(messages, sid, NoLimit)) = history_last.adds[sid]

\* a message has just been added to s1 after one to s2 and one to s1: two
\* and one
InterleavedAdds ==
    /\ history_last.op = "add" /\ history_last.session = "s1"
    /\ history_last.adds = [x \in SessionIds |-> IF x = "s1" THEN 2 ELSE 1]
    /\ Len(messages) = 3
    /\ messages[2].session_id = "s2"

\* C20: delete_session of a session that exists returns true and leaves
\* the session with no message and no session row, the other sessions as
\* they were; of one that does not exist it returns false and changes
\* neither table.
DeleteSessionEffect ==
    history_last.op = "delete" =>
        LET sid == history_last.session IN
        IF sid \in DOMAIN history_last.before_sessions
        THEN /\ history_last.ok
             /\ GetHistory(messages, sid, NoLimit) = << >>
             /\ sid \notin DOMAIN sessions
             /\ \A x \in SessionIds \ {sid} :
                   /\ GetHistory(messages, x, NoLimit) =
                         GetHistory(history_last.before, x, NoLimit)
                   /\ x \in DOMAIN sessions <=>
                         x \in DOMAIN history_last.before_sessions
                   /\ x \in DOMAIN sessions =>
                         sessions[x] = history_last.before_sessions[x]
        ELSE /\ ~history_last.ok
             /\ messages = history_last.before
             /\ sessions = history_last.before_sessions

\* s1, which had two messages, has just been deleted; s2 keeps its one
DeletedOneOfTwo ==
    /\ history_last.op = "delete" /\ history_last.session = "s1"
    /\ history_last.ok
    /\ Len(SessionRows(history_last.before, "s1")) = 2
    /\ Len(messages) = 1
    /\ DOMAIN sessions = {"s2"}

\* C21: for every session, get_message_count, the length of get_history
\* without a limit and get_session_info's message_count are equal, and
\* equal the number of messages added to the session since it was last
\* deleted.
CountsAgree ==
    /\ \A sid \in SessionIds :
          /\ MessageCount(messages, sid)
                = Len(GetHistory(messages, sid, NoLimit))
          /\ MessageCount(messages, sid)
                = GetSessionInfo(messages, sid).message_count
          /\ MessageCount(messages, sid) = history_last.adds[sid]
    /\ history_last.op \in {"count", "info"} =>
          history_last.count = history_last.adds[history_last.session]

\* get_message_count has just answered 2 for s1 while s2 holds a message
CountedTwoOfThree ==
    /\ history_last.op = "count" /\ history_last.session = "s1"
    /\ history_last.count = 2
    /\ Len(messages) = 3

\* C22: add_message is atomic, session upsert and message insert together:
\* under any interleaving of add_message and delete_session calls every
\* stored message belongs to a session that has a session row, and no
\* session row is there without a message; an add_message that fails
\* leaves both tables as they were.
TablesConsistent ==
    /\ \A i \in 1 .. Len(messages) : messages[i].session_id \in DOMAIN sessions
    /\ \A sid \in DOMAIN sessions : SessionRows(messages, sid) # << >>
    /\ (history_last.op = "add" /\ ~history_last.ok) =>
          /\ messages = history_last.before
          /\ sessions = history_last.before_sessions

\* an add_message to a session without a row has just failed, while the
\* other session holds messages
FailedAddLeftNoRow ==
    /\ history_last.op = "add" /\ ~history_last.ok
    /\ history_last.session \notin DOMAIN sessions
    /\ messages # << >>

\* C23: over any sequence of add_message calls a session's last_active
\* never decreases and its created_at never changes once the row exists.
SessionTimesMonotonic ==
    [][\A sid \in DOMAIN sessions \cap DOMAIN sessions' :
          /\ sessions'[sid].last_active >= sessions[sid].last_active
          /\ sessions'[sid].created_at = sessions[sid].created_at]_vars

\* a session whose second message came later than its first
SessionTouchedLater ==
    \E sid \in DOMAIN sessions :
        /\ sessions[sid].last_active > sessions[sid].created_at
        /\ Len(SessionRows(messages, sid)) >= 2

\* C25: GET /api/v1/sessions/{id}/history with a limit returns at most
\* `limit` messages of the session, the most recent ones.
HistoryEndpointLimited ==
    history_last.op = "info" =>
        /\ Len(history_last.result) <= history_last.limit
        /\ Range(history_last.result) =
              MostRecent(messages, history_last.session, history_last.limit)

\* ------------------------------------------------- endpoints: claims
\* C24: a POST /api/v1/chat/stream that names a model not registered is
\* answered with 400, as a POST /api/v1/chat is, and not with a 200 event
\* stream.
UnknownModelIs400 ==
    \A t \in TaskIds :
        (/\ tasks[t].kind \in {"chat", "sse"}
         /\ tasks[t].checked = "allowed"
         /\ tasks[t].pc = "done"
         /\ Resolve(tasks[t].model) \notin DOMAIN providers) =>
            /\ tasks[t].status = 400
            /\ tasks[t].frames = << >>

\* ------------------------------------------- rate limiter: concurrency
AllowedIn(results) == Len(SelectSeq(results, LAMBDA r : r.allowed))

IsUserRow(m) == m.role = "user"

\* C26: with request tasks that share one API key interleaved and the clock
\* standing still, check_rate_limit admits at most max_requests of them:
\* among the results since the bucket was created no more than max_requests
\* are allowed, and no more than max_requests turns have stored a user
\* message.
AdmittedWithinLimit ==
    /\ \A k \in Keys : AllowedIn(streak[k]) <= MaxRequests
    /\ Len(SelectSeq(messages, IsUserRow)) <= MaxRequests

\* max_requests requests were admitted and the next one denied while an
\* admitted one was still waiting for its provider
DeniedWhileInFlight ==
    /\ Len(streak["key1"]) = MaxRequests + 1
    /\ AllowedIn(streak["key1"]) = MaxRequests
    /\ \E t \in TaskIds, u \in TaskIds :
          /\ tasks[t].pc = "generate"
          /\ tasks[u].status = 429

\* C27: once a request bucket has dropped below one token, a check made
\* window / max_requests seconds or more after that moment is allowed,
\* however many denied checks were made in between.
RecoveryNotDelayed ==
    (/\ rl_last.op = "check"
     /\ rl_last.below_at >= 0
     /\ rl_last.at >= rl_last.below_at + Scale \div MaxRequests)
    => rl_last.allowed

\* a check exactly window / max_requests seconds after the drop was allowed,
\* with a denied check in between
RecoveredAfterDenied ==
    /\ rl_last.op = "check"
    /\ rl_last.below_at >= 0
    /\ rl_last.at = rl_last.below_at + Scale \div MaxRequests
    /\ rl_last.denied_before >= 1
    /\ rl_last.allowed

\* ------------------------------------------- streaming: end of a turn
LastFrame(task) == task.frames[Len(task.frames)]

\* C28: on the SSE and WebSocket paths a done frame is sent only after the
\* turn's assistant message has been stored, and its total_length is the
\* length of the stored content, which is the summed length of the token
\* frames sent before it; when storing the assistant message fails after
\* the last token the turn ends with an error frame, not a done frame.
DoneAfterPersist ==
    \A t \in TaskIds :
        tasks[t].kind \in {"sse", "ws"} =>
            /\ LastFrameIs(tasks[t], {"done"}) =>
                  /\ tasks[t].persist = "stored"
                  /\ Len(tasks[t].added) = 2
                  /\ tasks[t].added[2].role = "assistant"
                  /\ \E i \in 1 .. Len(messages) : messages[i] = tasks[t].added[2]
                  /\ LastFrame(tasks[t]).total_length =
                         Len(tasks[t].added[2].content)
                  /\ LastFrame(tasks[t]).total_length =
                         Len(FrameText(tasks[t].frames))
            /\ tasks[t].persist = "failed" =>
                  /\ LastFrameIs(tasks[t], {"error"})
                  /\ Len(tasks[t].added) = 1

\* a turn that had streamed both of its tokens ended with an error frame
\* because its assistant message could not be stored
PersistFailedAfterTokens ==
    \E t \in TaskIds :
        /\ tasks[t].persist = "failed"
        /\ TokensSent(t) = 2
        /\ LastFrameIs(tasks[t], {"error"})
        /\ Len(messages) = 1

\* the consumer of task t's streaming turn has stopped before the
\* provider's stream ended
ConsumerStopped(t) ==
    \/ tasks[t].kind = "sse" /\ tasks[t].pc = "cancelled"
    \/ tasks[t].kind = "ws" /\ tasks[t].pc = "failed"

\* C30: when the consumer of a streaming turn stops before the provider's
\* stream ends, no more tokens are forwarded and no assistant message is
\* stored for the turn: the newest message of the history is the turn's
\* user message.
StoppedTurnStoresUserOnly ==
    \A t \in TaskIds :
        ConsumerStopped(t) =>
            /\ Len(tasks[t].added) = 1
            /\ tasks[t].added[1].role = "user"
            /\ messages # << >>
            /\ messages[Len(messages)] = tasks[t].added[1]
            /\ ~LastFrameIs(tasks[t], {"done"})
            /\ \A token \in Tokens : ~ENABLED StreamToken(t, token)
            /\ ~ENABLED StreamEnds(t)

\* an SSE client went away after the first token of a reply
SseStoppedAfterToken ==
    \E t \in TaskIds :
        /\ tasks[t].kind = "sse" /\ tasks[t].pc = "cancelled"
        /\ TokensSent(t) = 1
        /\ Len(messages) = 1

\* ------------------------------------------ turns and delete_session
RowsWithRole(msgs, sid, role) ==
    Len(SelectSeq(msgs, LAMBDA m : m.session_id = sid /\ m.role = role))

\* C29: however concurrent turns and delete_session calls on one session
\* interleave, the stored history of a session never holds more assistant
\* messages than user messages.
AssistantsHaveUsers ==
    \A sid \in SessionIds :
        RowsWithRole(messages, sid, "assistant")
            <= RowsWithRole(messages, sid, "user")

====
